---- MODULE Spec2Model ----
(***************************************************************************)
(* State-machine model of the sqlite todo example: App.js (the input, the  *)
(* three statements it sends to the database and the refresh of its two    *)
(* lists) and components/Items.js (one filtered list).                     *)
(*                                                                         *)
(* The database handle runs its transactions one at a time, in the order   *)
(* db.transaction() was called; callbacks of a transaction run when that   *)
(* transaction is executed.  The user may type, submit or press at any     *)
(* moment between two database steps.                                      *)
(***************************************************************************)
EXTENDS Integers, Sequences, FiniteSets, TLC

\* ---- bounds of the model ------------------------------------------------
MaxActions == 4     \* user actions that reach db.transaction()
MaxFaults == 1      \* storage errors raised by the engine

\* ---- values -------------------------------------------------------------
NULL == "<null>"                 \* JavaScript null in this.state.text
Values == {"a"}                  \* non-empty texts the user types
Comps == {"todo", "done"}        \* the two <Items> instances of App.render

VARIABLES
    platform,     \* Platform.OS
    mounted,      \* the component tree has been mounted
    refs,         \* which of this.todo / this.done are set
    text,         \* App.state.text
    items,        \* Items.state.items of each instance
    queue,        \* transactions handed to db.transaction(), not yet run
    tableExists,  \* the items table exists in db1.db
    rows,         \* the rows of the items table
    added,        \* what the last call of add() returned
    console,      \* failed transactions an error callback has logged
    hist,         \* history: the mutations issued, in order of issue
    cause,        \* history: which refresh last set each instance's items
    faults        \* history: storage errors raised so far

vars == <<platform, mounted, refs, text, items, queue, tableExists, rows,
          added, console, hist, cause, faults>>

\* ---- rows and queries ---------------------------------------------------
Row(i, d, v) == [id |-> i, done |-> d, value |-> v]

Ids(rs) == {r.id : r \in rs}

SetMax(S) == CHOOSE m \in S : \A x \in S : x <= m

\* SQLite sends a full scan of a rowid table back in rowid order.
RECURSIVE SortById(_)
SortById(rs) ==
    IF rs = {} THEN <<>>
    ELSE LET first == CHOOSE r \in rs : \A x \in rs : r.id <= x.id
         IN  <<first>> \o SortById(rs \ {first})

\* 'select * from items where done = ?'
ListByStatus(rs, d) == SortById({r \in rs : r.done = d})

\* mutant: the next id taken from the number of rows
NextIdByCount(rs) == Cardinality(rs) + 1

\* id integer primary key not null, no value given on insert: the engine
\* takes the largest rowid in use plus one (1 in an empty table).
NextId(rs) == IF rs = {} THEN 1 ELSE SetMax(Ids(rs)) + 1

\* mutant: the row inserted as done
InsertItemAsDone(rs, v) == rs \cup {Row(NextId(rs), 1, v)}

\* "insert into items (done, value) values (0, ?)"
InsertItem(rs, v) == rs \cup {Row(NextId(rs), 0, v)}

\* mutant: the press flips done instead of setting it
UpdateDoneFlips(rs, i) == {IF r.id = i THEN [r EXCEPT !.done = 1 - r.done] ELSE r : r \in rs}

\* "update items set done = 1 where id = ?"
UpdateDone(rs, i) == {IF r.id = i THEN [r EXCEPT !.done = 1] ELSE r : r \in rs}

\* mutant: the delete takes the rows up to the id pressed
DeleteItemUpTo(rs, i) == {r \in rs : r.id > i}

\* "delete from items where id = ?"
DeleteItem(rs, i) == {r \in rs : r.id # i}

\* [this.props.done ? 1 : 0] of each instance (done={false} / done={true})
PropsDone(c) == IF c = "done" THEN 1 ELSE 0

\* ---- transactions -------------------------------------------------------
Tx(op, i, v, c, s) == [op |-> op, id |-> i, value |-> v, comp |-> c, seq |-> s]

\* Items.update of instance c; s names the mutation whose completion asked
\* for it (0: componentDidMount)
SelectTx(c, s) == Tx("select", 0, "", c, s)

\* mutant: only the pending list is refreshed
AppUpdateTodoOnly(s) == IF "todo" \in refs THEN <<SelectTx("todo", s)>> ELSE <<>>

\* App.update: this.todo && this.todo.update(); this.done && this.done.update()
AppUpdate(s) ==
    (IF "todo" \in refs THEN <<SelectTx("todo", s)>> ELSE <<>>)
    \o (IF "done" \in refs THEN <<SelectTx("done", s)>> ELSE <<>>)

NullItems == [isNull |-> TRUE, arr |-> <<>>]

\* what db1.db can hold when the app starts: nothing (first launch) or what
\* earlier runs of the app left in it
InitStores ==
    { [table |-> FALSE, rows |-> {}],
      [table |-> TRUE,  rows |-> {}],
      [table |-> TRUE,  rows |-> {Row(1, 1, "b")}] }

Init ==
    /\ platform \in {"native", "web"}
    /\ mounted = FALSE
    /\ refs = {}
    /\ text = NULL
    /\ items = [c \in Comps |-> NullItems]
    /\ queue = <<>>
    /\ \E st \in InitStores : tableExists = st.table /\ rows = st.rows
    /\ added = "none"
    /\ console = 0
    /\ hist = <<>>
    /\ cause = [c \in Comps |-> -1]
    /\ faults = 0

\* ---- mounting -----------------------------------------------------------
\* React mounts the tree in one commit: componentDidMount runs for the
\* children first, in order, then for App; the refs are attached in the same
\* commit.  On web openDatabase() returns a stub whose transaction() does
\* nothing and render() shows neither the input nor the lists.
MountQueue ==
    <<SelectTx("todo", 0), SelectTx("done", 0), Tx("createTable", 0, "", "", 0)>>

Mount ==
    /\ ~mounted
    /\ mounted' = TRUE
    /\ IF platform = "web"
       THEN UNCHANGED <<refs, queue>>
       ELSE /\ refs' = Comps
            /\ queue' = queue \o MountQueue
    /\ UNCHANGED <<platform, text, items, tableExists, rows, added, console, hist, cause, faults>>

\* ---- the input ----------------------------------------------------------
Native == mounted /\ platform = "native"

Texts == Values \cup {""}

\* onChangeText={text => this.setText(text)}
ChangeText(t) ==
    /\ Native
    /\ text' = t
    /\ UNCHANGED <<platform, mounted, refs, items, queue, tableExists, rows,
                   added, console, hist, cause, faults>>

\* mutant: only null is rejected
AddRejectsNullOnly(t) == t = NULL

\* add(): if (text === null || text === '') return false
AddRejects(t) == t = NULL \/ t = ""

\* mutant: this.update() called on the spot instead of passed as the callback
AddTransactionEagerUpdate(t, s) == AppUpdate(s) \o <<Tx("insert", 0, t, "", s)>>

\* add(): the transaction handed to the database, with this.update as its
\* success callback (s is the mutation's place in hist)
AddTransaction(t, s) == <<Tx("insert", 0, t, "", s)>>

\* a mutation as hist keeps it: what was asked, how its transaction ended
\* (queued, committed, failed), the rows it found, and what became of each
\* of the two queries of its refresh (none, queued, ran, failed)
Issued(op, i, v) ==
    [op |-> op, id |-> i, value |-> v, outcome |-> "queued", pre |-> {},
     refresh |-> [c \in Comps |-> "none"]]

\* onSubmitEditing: this.add(this.state.text); this.setText(null)
SubmitEditing ==
    /\ Native
    /\ IF AddRejects(text)
       THEN /\ added' = "false"
            /\ UNCHANGED <<queue, hist>>
       ELSE /\ Len(hist) < MaxActions
            /\ queue' = queue \o AddTransaction(text, Len(hist) + 1)
            /\ hist' = Append(hist, Issued("insert", 0, text))
            /\ added' = "undefined"
    /\ text' = NULL
    /\ UNCHANGED <<platform, mounted, refs, items, tableExists, rows, console, cause, faults>>

\* ---- the lists ----------------------------------------------------------
\* Items.render: nothing when items is null or empty, else one Pressable per
\* item of the snapshot, keyed and pressed by its id
Pressable(c) == IF items[c].isNull THEN {} ELSE {items[c].arr[k].id : k \in DOMAIN items[c].arr}

\* onPress of the done={false} list: "update items set done = 1 where id = ?"
PressTodoTransaction(i, s) == <<Tx("markDone", i, "", "", s)>>

\* onPress of the done={true} list: "delete from items where id = ?"
PressDoneTransaction(i, s) == <<Tx("delete", i, "", "", s)>>

PressTodo(i) ==
    /\ Native
    /\ i \in Pressable("todo")
    /\ Len(hist) < MaxActions
    /\ queue' = queue \o PressTodoTransaction(i, Len(hist) + 1)
    /\ hist' = Append(hist, Issued("markDone", i, ""))
    /\ UNCHANGED <<platform, mounted, refs, text, items, tableExists, rows, added, console, cause, faults>>

PressDone(i) ==
    /\ Native
    /\ i \in Pressable("done")
    /\ Len(hist) < MaxActions
    /\ queue' = queue \o PressDoneTransaction(i, Len(hist) + 1)
    /\ hist' = Append(hist, Issued("delete", i, ""))
    /\ UNCHANGED <<platform, mounted, refs, text, items, tableExists, rows, added, console, cause, faults>>

\* ---- the database -------------------------------------------------------
Mutations == {"insert", "markDone", "delete"}

\* mutant: the onPress handlers pass no success callback
SuccessCallbackOfAddOnly(tx) == IF tx.op = "insert" THEN AppUpdate(tx.seq) ELSE <<>>

\* the third argument of db.transaction() in add() and in both onPress
\* handlers is this.update; componentDidMount and Items.update pass none
SuccessCallback(tx) == IF tx.op \in Mutations THEN AppUpdate(tx.seq) ELSE <<>>

\* what the statement of a mutation leaves in the table
Effect(tx, rs) ==
    CASE tx.op = "insert"   -> InsertItem(rs, tx.value)
      [] tx.op = "markDone" -> UpdateDone(rs, tx.id)
      [] tx.op = "delete"   -> DeleteItem(rs, tx.id)

Asked(q, c, s) == \E k \in DOMAIN q : q[k] = SelectTx(c, s)

\* hist when the transaction of mutation s commits and its success callback
\* has handed the queries q to the database
Settle(s, q) ==
    [hist EXCEPT ![s].outcome = "committed", ![s].pre = rows,
                 ![s].refresh = [c \in Comps |-> IF Asked(q, c, s) THEN "queued" ELSE "none"]]

\* hist when a query of the refresh of mutation s has run or failed
Answer(tx, how) ==
    IF tx.op = "select" /\ tx.seq \in DOMAIN hist
    THEN [hist EXCEPT ![tx.seq].refresh[tx.comp] = how]
    ELSE hist

\* mutant: the table is created anew at every start
CreateTableAnew(exists, rs) == {}

\* the rows of the items table after "create table if not exists items
\* (...)": those it held if it existed, none in the new table
CreateTableIfNotExists(exists, rs) == IF exists THEN rs ELSE {}

\* "create table if not exists items (...)"
ExecCreateTable ==
    /\ queue # <<>> /\ Head(queue).op = "createTable"
    /\ tableExists' = TRUE
    /\ rows' = CreateTableIfNotExists(tableExists, rows)
    /\ queue' = Tail(queue)
    /\ UNCHANGED <<platform, mounted, refs, text, items, added, console, hist, cause, faults>>

\* a transaction of add() or of an onPress handler commits, then its success
\* callback runs
ExecMutation ==
    /\ queue # <<>> /\ Head(queue).op \in Mutations
    /\ tableExists
    /\ rows' = Effect(Head(queue), rows)
    /\ hist' = Settle(Head(queue).seq, SuccessCallback(Head(queue)))
    /\ queue' = Tail(queue) \o SuccessCallback(Head(queue))
    /\ UNCHANGED <<platform, mounted, refs, text, items, tableExists, added, console, cause, faults>>

\* Items.update: (_, { rows: { _array } }) => this.setItems(_array)
SetItems(c, arr) == [items EXCEPT ![c] = [isNull |-> FALSE, arr |-> arr]]

ExecSelect ==
    /\ queue # <<>> /\ Head(queue).op = "select"
    /\ tableExists
    /\ items' = SetItems(Head(queue).comp, ListByStatus(rows, PropsDone(Head(queue).comp)))
    /\ cause' = [cause EXCEPT ![Head(queue).comp] = Head(queue).seq]
    /\ hist' = Answer(Head(queue), "ran")
    /\ queue' = Tail(queue)
    /\ UNCHANGED <<platform, mounted, refs, text, tableExists, rows, added, console, faults>>

\* mutant: the error callback hands the transaction to the database again
ErrorCallbackRetries(tx) == IF tx.op \in Mutations THEN <<tx>> ELSE <<>>

\* what an error callback hands to the database: (err) => console.log(err)
\* hands nothing; Items.update passes no error callback
ErrorCallback(tx) == <<>>

\* whether a failed transaction is logged: componentDidMount, add() and the
\* onPress handlers pass (err) => console.log(err), Items.update passes no
\* error callback
ErrorLines(tx) == IF tx.op = "select" THEN 0 ELSE 1

\* a failed transaction is rolled back; its error callback, where one was
\* given, logs to the console; its success callback is not called
Abort ==
    /\ queue' = Tail(queue) \o ErrorCallback(Head(queue))
    /\ console' = console + ErrorLines(Head(queue))
    /\ hist' = IF Head(queue).op \in Mutations
               THEN [hist EXCEPT ![Head(queue).seq].outcome = "failed"]
               ELSE Answer(Head(queue), "failed")
    /\ UNCHANGED <<platform, mounted, refs, text, items, tableExists, rows, added, cause>>

\* a statement on the items table while the table does not exist
NoSuchTable ==
    /\ queue # <<>> /\ Head(queue).op # "createTable"
    /\ ~tableExists
    /\ Abort
    /\ UNCHANGED faults

\* the engine fails a transaction (disk I/O, full disk)
StorageError ==
    /\ queue # <<>>
    /\ faults < MaxFaults
    /\ faults' = faults + 1
    /\ Abort

Next ==
    \/ Mount
    \/ \E t \in Texts : ChangeText(t)
    \/ SubmitEditing
    \/ \E i \in Pressable("todo") : PressTodo(i)
    \/ \E i \in Pressable("done") : PressDone(i)
    \/ ExecCreateTable
    \/ ExecMutation
    \/ ExecSelect
    \/ NoSuchTable
    \/ StorageError

Spec == Init /\ [][Next]_vars

\* ---- reading the history ------------------------------------------------
Serials == DOMAIN hist

Committed(s) == hist[s].outcome = "committed"

\* the row a committed markDone / delete found under its id, if any
Target(s) == {r \in hist[s].pre : r.id = hist[s].id}

\* ids whose row a delete has removed from the table
RemovedIds == {hist[s].id : s \in {x \in Serials : Committed(x) /\ hist[x].op = "delete" /\ Target(x) # {}}}

Shown(c) == IF items[c].isNull THEN {} ELSE {items[c].arr[k] : k \in DOMAIN items[c].arr}

\* the refresh asked for by mutation s has replaced both snapshots
RefreshedBy(s) == cause["todo"] = s /\ cause["done"] = s

\* ---- C1 -----------------------------------------------------------------
\* C1: the lifecycle of an item is one-way: a row that enters the table
\* enters it pending (done = 0), a row that is done is never pending again,
\* and the id of a removed row is never in the table again.
C1_LifecycleStep ==
    \A n \in rows' :
        /\ n.id \notin Ids(rows) => n.done = 0 /\ n.id \notin RemovedIds
        /\ \A o \in rows : o.id = n.id /\ o.done = 1 => n.done = 1

\* C1, of every step
C1_LifecycleOneWay == [][C1_LifecycleStep]_vars

\* ---- C2 -----------------------------------------------------------------
\* no mutation issued after s has committed yet
NoLaterCommit(s) == \A t \in Serials : t > s => ~Committed(t)

CreateCommits == queue # <<>> /\ Head(queue).op = "insert" /\ ExecMutation

\* a query of the refresh asked for by mutation s runs, and no mutation
\* issued after s has committed in between: it reads the table as s left it
RefreshRuns(c, s) ==
    /\ queue # <<>> /\ Head(queue).op = "select"
    /\ Head(queue).comp = c /\ Head(queue).seq = s
    /\ s \in Serials /\ NoLaterCommit(s)
    /\ ExecSelect

\* C2: a create(v) that commits adds exactly one row, with a new id, value v
\* and done = 0: the pending list grows by exactly one and the done list is
\* unchanged; the refresh it asks for, run on the table as the create left
\* it, returns the pending list of before plus that one item and the done
\* list of before; on an empty table it returns exactly that one item.
C2_CreateStep ==
    /\ CreateCommits =>
          /\ rows \subseteq rows'
          /\ Cardinality(rows' \ rows) = 1
          /\ \A n \in rows' \ rows :
                n.value = Head(queue).value /\ n.done = 0 /\ n.id \notin Ids(rows)
          /\ Len(ListByStatus(rows', 0)) = Len(ListByStatus(rows, 0)) + 1
          /\ ListByStatus(rows', 1) = ListByStatus(rows, 1)
    /\ \A s \in Serials :
          hist[s].op = "insert" =>
             /\ RefreshRuns("todo", s) =>
                   /\ Len(items'["todo"].arr) = Len(ListByStatus(hist[s].pre, 0)) + 1
                   /\ \E k \in DOMAIN items'["todo"].arr :
                         /\ items'["todo"].arr[k].value = hist[s].value
                         /\ items'["todo"].arr[k].done = 0
                         /\ items'["todo"].arr[k].id \notin Ids(hist[s].pre)
                   /\ hist[s].pre = {} => Len(items'["todo"].arr) = 1
             /\ RefreshRuns("done", s) =>
                   items'["done"].arr = ListByStatus(hist[s].pre, 1)

\* C2, of every step
C2_CreateAddsOnePending == [][C2_CreateStep]_vars

\* a create on a table that held rows has committed and its refresh has
\* replaced both snapshots, the new item in the pending one
C2_Witness ==
    \E s \in Serials :
        /\ Committed(s) /\ hist[s].op = "insert" /\ hist[s].pre # {}
        /\ RefreshedBy(s)
        /\ \E r \in Shown("todo") : r.value = hist[s].value /\ r.id \notin Ids(hist[s].pre)

\* ---- C3 -----------------------------------------------------------------
\* C3: submitting a null or empty text is a no-op: nothing is handed to the
\* database, the table and both snapshots stay as they are.
C3_EmptyStep ==
    ((text = NULL \/ text = "") /\ SubmitEditing) =>
        /\ added' = "false"
        /\ UNCHANGED <<queue, hist, tableExists, rows, items>>

\* C3, of every step
C3_EmptyCreateIsNoOp == [][C3_EmptyStep]_vars

\* add() has returned false while the table held rows and the lists showed some
C3_Witness ==
    /\ added = "false" /\ text = NULL
    /\ rows # {} /\ Pressable("todo") # {}

\* ---- C4 -----------------------------------------------------------------
\* C4: once markDone(id) of a pending item has committed and the refresh it
\* asked for has replaced both snapshots, the item is not in the pending
\* snapshot and is in the done snapshot with the same id and value, done = 1.
C4_MarkDoneMoves ==
    \A s \in Serials :
        (/\ Committed(s) /\ hist[s].op = "markDone"
         /\ RefreshedBy(s))
        => \A r \in Target(s) :
              r.done = 0 =>
                 /\ r.id \notin Pressable("todo")
                 /\ Row(r.id, 1, r.value) \in Shown("done")

\* ---- C5 -----------------------------------------------------------------
\* C5: once a delete of a done item has committed, every snapshot installed
\* by the refresh it asked for, or by a later one, is without that id.
C5_DeletedStaysAway ==
    \A s \in Serials :
        (Committed(s) /\ hist[s].op = "delete")
        => \A r \in Target(s) :
              r.done = 1 =>
                 \A c \in Comps : cause[c] >= s => r.id \notin Pressable(c)

\* ---- C6 -----------------------------------------------------------------
PressCommits == queue # <<>> /\ Head(queue).op \in {"markDone", "delete"} /\ ExecMutation

\* C6: markDone(id) and delete(id) of an id that is not in the table leave
\* the table, and so both lists, as they are, and the refresh that follows,
\* run on the table as they left it, returns the lists of before; doing
\* markDone(id) or delete(id) again changes nothing more.
C6_AbsentStep ==
    /\ (PressCommits /\ Head(queue).id \notin Ids(rows)) =>
          /\ rows' = rows
          /\ \A d \in {0, 1} : ListByStatus(rows', d) = ListByStatus(rows, d)
    /\ PressCommits => Effect(Head(queue), rows') = rows'
    /\ \A s \in Serials :
          (hist[s].op \in {"markDone", "delete"} /\ Target(s) = {}) =>
             \A c \in Comps :
                RefreshRuns(c, s) => items'[c].arr = ListByStatus(hist[s].pre, PropsDone(c))

\* C6, of every step
C6_AbsentIdIsNoOp == [][C6_AbsentStep]_vars

\* a delete of an id that was no longer in the table has committed and its
\* refresh has replaced both snapshots
C6_Witness ==
    \E s \in Serials :
        /\ Committed(s) /\ hist[s].op = "delete" /\ Target(s) = {}
        /\ RefreshedBy(s)

\* ---- C7 -----------------------------------------------------------------
\* C7: in the table, ids are pairwise distinct, done is 0 or 1 and value is
\* neither null nor the empty string.
C7_StoreInvariant ==
    /\ \A r1, r2 \in rows : r1.id = r2.id => r1 = r2
    /\ \A r \in rows : r.done \in {0, 1} /\ r.value # NULL /\ r.value # ""

\* the table holds a pending and a done row, one of them typed in this run
C7_Witness ==
    /\ \E r \in rows : r.done = 0
    /\ \E r \in rows : r.done = 1
    /\ \E s \in Serials : Committed(s) /\ hist[s].op = "insert"

\* ---- C8 -----------------------------------------------------------------
\* C8: the queries of a refresh are handed to the database only after the
\* transaction of the mutation that asks for them has committed, so what a
\* refresh installs was read from the table after that mutation.
C8_Ordered ==
    /\ \A k \in DOMAIN queue :
          (queue[k].op = "select" /\ queue[k].seq # 0) =>
             /\ queue[k].seq \in Serials
             /\ Committed(queue[k].seq)
             /\ \A j \in DOMAIN queue : queue[j].seq = queue[k].seq => queue[j].op = "select"
    /\ \A c \in Comps : cause[c] > 0 => cause[c] \in Serials /\ Committed(cause[c])

C8_RefreshStep ==
    \A s \in Serials : \A c \in Comps :
        RefreshRuns(c, s) =>
           /\ Committed(s)
           /\ items'[c].arr = ListByStatus(Effect(hist[s], hist[s].pre), PropsDone(c))

\* C8, of every state and every step
C8_RefreshAfterCommit == []C8_Ordered /\ [][C8_RefreshStep]_vars

\* the queries of a refresh are waiting behind a mutation issued later
C8_Witness ==
    \E k \in DOMAIN queue :
        /\ queue[k].op = "select" /\ queue[k].seq > 0
        /\ \E j \in DOMAIN queue : j < k /\ queue[j].op \in Mutations

\* ---- C9 -----------------------------------------------------------------
\* C9: every create, markDone or delete handed to the database is followed
\* by a refresh that runs both queries and replaces both snapshots: once the
\* database has nothing left to run, the refresh of every mutation issued has
\* run.
C9_EveryMutationRefreshed ==
    queue = <<>> =>
        \A s \in Serials : \A c \in Comps : hist[s].refresh[c] = "ran" /\ cause[c] >= s

\* C9 as amended: a create, markDone or delete that commits is followed by a
\* refresh that hands both queries to the database, and each of them that the
\* storage does not fail replaces its snapshot; a mutation whose transaction
\* fails is followed by no refresh.
C9_CommittedMutationRefreshed ==
    \A s \in Serials : \A c \in Comps :
        /\ Committed(s) =>
              /\ hist[s].refresh[c] \in {"queued", "ran", "failed"}
              /\ hist[s].refresh[c] = "queued" <=> Asked(queue, c, s)
              /\ hist[s].refresh[c] = "ran" => cause[c] >= s /\ ~items[c].isNull
              /\ hist[s].refresh[c] = "failed" => faults > 0
        /\ ~Committed(s) => hist[s].refresh[c] = "none" /\ ~Asked(queue, c, s)

\* a create, a markDone and a delete have committed and the refresh of each
\* has run
C9_Witness ==
    /\ queue = <<>>
    /\ \A op \in Mutations :
          \E s \in Serials :
              /\ hist[s].op = op /\ Committed(s)
              /\ \A c \in Comps : hist[s].refresh[c] = "ran"

SubmitIssues == ~AddRejects(text) /\ SubmitEditing

\* the refresh of mutation s has been triggered: a query of it has been
\* handed to the database
Triggered(h, q, s) ==
    \/ \E c \in Comps : h[s].refresh[c] # "none"
    \/ \E c \in Comps : Asked(q, c, s)

\* C11 as the specification words it: when a non-empty text is submitted the
\* input is cleared only after the refresh has been triggered, so in the
\* state where the handler has cleared the input the refresh of the create
\* it issued has been triggered.
C11_ClearedAfterRefresh ==
    [][SubmitIssues => Triggered(hist', queue', Len(hist'))]_vars

\* C11, amended: submitting an empty text hands nothing to the database and
\* triggers no refresh, and resets the input to null; submitting a non-empty
\* text hands the create to the database and clears the input in the same
\* handler, before the create has run and with no refresh triggered yet; the
\* refresh is triggered afterwards, when the create commits, and that step
\* leaves the input as it is.
C11_SubmitStep ==
    /\ (AddRejects(text) /\ SubmitEditing) =>
          /\ text' = NULL
          /\ UNCHANGED <<queue, hist, tableExists, rows, items, console>>
    /\ SubmitIssues =>
          /\ text' = NULL
          /\ queue' = Append(queue, Tx("insert", 0, text, "", Len(hist') ))
          /\ Len(hist') = Len(hist) + 1
          /\ hist'[Len(hist')].outcome = "queued"
          /\ ~Triggered(hist', queue', Len(hist'))
          /\ UNCHANGED <<tableExists, rows, items>>
    /\ CreateCommits =>
          /\ ~Triggered(hist, queue, Head(queue).seq)
          /\ Triggered(hist', queue', Head(queue).seq)
          /\ text' = text

\* C11 amended, of every step
C11_SubmitThenClearThenRefresh == [][C11_SubmitStep]_vars

\* the handler has issued a create and cleared the input; the create has
\* not run and no refresh has been triggered for it
C11_Witness ==
    /\ text = NULL /\ added = "undefined"
    /\ hist # <<>>
    /\ hist[Len(hist)].op = "insert" /\ hist[Len(hist)].outcome = "queued"
    /\ ~Triggered(hist, queue, Len(hist))
    /\ \E k \in DOMAIN queue : queue[k].op = "insert" /\ queue[k].seq = Len(hist)

\* ---- C12 ----------------------------------------------------------------
Failed(s) == hist[s].outcome = "failed"

\* the transaction of a create, markDone or delete fails
MutationFails ==
    /\ queue # <<>> /\ Head(queue).op \in Mutations
    /\ StorageError \/ NoSuchTable

\* a create, markDone or delete commits after an earlier one has failed
CommitsAfterFailure ==
    /\ queue # <<>> /\ Head(queue).op \in Mutations
    /\ \E s \in Serials : Failed(s)
    /\ ExecMutation

\* the step in which a transaction fails, and a commit that follows one
C12_FailStep ==
    /\ MutationFails =>
          /\ rows' = rows /\ tableExists' = tableExists
          /\ items' = items
          /\ added' = added /\ text' = text
          /\ console' = console + 1
          /\ queue' = Tail(queue)
          /\ hist'[Head(queue).seq].outcome = "failed"
          /\ \A s \in Serials : s # Head(queue).seq => hist'[s] = hist[s]
    /\ CommitsAfterFailure =>
          /\ rows' = Effect(Head(queue), rows)
          /\ queue' = Tail(queue) \o AppUpdate(Head(queue).seq)
          /\ console' = console

\* a failed mutation is not in the queue again and no query of a refresh
\* was asked for it; the handlers stay usable after it
C12_AfterFailure ==
    \A s \in Serials :
        Failed(s) =>
            /\ \A k \in DOMAIN queue : queue[k].seq # s
            /\ \A c \in Comps : hist[s].refresh[c] = "none"
            /\ console >= 1
            /\ Native
            /\ Len(hist) < MaxActions =>
                  /\ \A i \in Pressable("todo") : ENABLED PressTodo(i)
                  /\ \A i \in Pressable("done") : ENABLED PressDone(i)
                  /\ text \in Values => ENABLED SubmitEditing

\* C12: a storage error during create, markDone or delete is only logged:
\* the table and both snapshots stay as they were (a failed create inserts
\* nothing), what add() returned and the input are untouched, the
\* transaction is not handed to the database again and no refresh is asked
\* for it; the handlers can still issue operations, and a later create,
\* markDone or delete commits with the effect of its statement and asks for
\* its refresh.
C12_FailureOnlyLogged == []C12_AfterFailure /\ [][C12_FailStep]_vars

\* a mutation has failed and was logged, and a mutation issued after it has
\* committed, changed the table and had both snapshots refreshed
C12_Witness ==
    \E s, t \in Serials :
        /\ s < t /\ Failed(s) /\ console >= 1 /\ faults >= 1
        /\ Committed(t) /\ rows # hist[t].pre
        /\ RefreshedBy(t)
        /\ \A c \in Comps : items[c] = [isNull |-> FALSE, arr |-> ListByStatus(rows, PropsDone(c))]

\* ---- C13 ----------------------------------------------------------------
\* mutation s is in flight: issued, and its transaction has not run yet or
\* a query of the refresh it asked for has not run yet
InFlight(s) ==
    \/ hist[s].outcome = "queued"
    \/ Committed(s) /\ \E c \in Comps : hist[s].refresh[c] = "queued"

\* C13: the interface issues one mutation at a time: from the issue of a
\* create, markDone or delete to the completion of the refresh that follows
\* it no other user action is processed, so at most one mutation is in
\* flight in any reachable state.
C13_OneMutationInFlight ==
    Cardinality({s \in Serials : InFlight(s)}) <= 1

\* ---- C14 ----------------------------------------------------------------
\* the transaction of componentDidMount runs
SchemaRuns == queue # <<>> /\ Head(queue).op = "createTable" /\ ExecCreateTable

\* C14: creating the schema is idempotent: run while the table exists it
\* raises no error and leaves every row as it is, and wherever it has run,
\* running it once more would change nothing; this holds at a start of the
\* application over a database that earlier runs have filled.
C14_SchemaStep ==
    SchemaRuns =>
        /\ tableExists'
        /\ tableExists => rows' = rows
        /\ console' = console /\ faults' = faults
        /\ CreateTableIfNotExists(tableExists', rows') = rows'
        /\ UNCHANGED <<items, hist>>

\* C14, of every step
C14_SchemaIdempotent == [][C14_SchemaStep]_vars

\* the application has started over a database that held a row: the create
\* table transaction has run without error and the row is still there
C14_Witness ==
    /\ Native /\ queue = <<>> /\ hist = <<>>
    /\ faults = 0 /\ console = 0
    /\ tableExists /\ rows = {Row(1, 1, "b")}
    /\ Shown("done") = rows

\* ---- C15 ----------------------------------------------------------------
\* C15: every delete the interface issues targets a done item: when its
\* statement executes, the row with that id is done or not in the table; a
\* pending row is never deleted.
C15_DeleteStep ==
    (queue # <<>> /\ Head(queue).op = "delete" /\ ExecMutation) =>
        \A r \in rows : r.id = Head(queue).id => r.done = 1

\* C15, of every step
C15_DeleteTargetsDone == [][C15_DeleteStep]_vars

\* ---- C16 ----------------------------------------------------------------
\* every id a row of the table has had since the application started
EverIds == Ids(rows) \cup UNION {Ids(hist[s].pre) : s \in {x \in Serials : Committed(x)}}

\* C16: ids auto-increment and never change: the id a create assigns differs
\* from the id of every item there has been, deleted ones included, and no
\* operation changes the id of a row that is in the table.
C16_IdStep ==
    /\ CreateCommits => \A n \in rows' \ rows : n.id \notin EverIds
    /\ (queue # <<>> /\ Head(queue).op \in {"markDone", "delete"} /\ ExecMutation) =>
           Ids(rows') \subseteq Ids(rows)

\* C16, of every step
C16_IdsNeverReused == [][C16_IdStep]_vars

\* ---- C17 ----------------------------------------------------------------
\* nothing is pending in the database and no transaction has failed for a
\* storage error
Quiescent == Native /\ queue = <<>> /\ faults = 0

\* C17: the displayed lists converge to the table: whenever no transaction
\* and no callback is pending, after any sequence of user actions none of
\* which met a storage error, the pending snapshot shows exactly the rows
\* with done = 0 and the done snapshot exactly the rows with done = 1 (a
\* snapshot that is still null shows no item, as an empty one does).
C17_Converged ==
    Quiescent =>
        \A c \in Comps :
            /\ Shown(c) = {r \in rows : r.done = PropsDone(c)}
            /\ ~items[c].isNull => items[c].arr = ListByStatus(rows, PropsDone(c))

\* three mutations have committed, nothing is pending, and the table holds
\* a pending and a done row, each shown in its list
C17_Witness ==
    /\ Quiescent
    /\ Len(hist) >= 3 /\ \A s \in Serials : Committed(s)
    /\ \A c \in Comps : Shown(c) # {} /\ Shown(c) = {r \in rows : r.done = PropsDone(c)}

\* ---- C18 ----------------------------------------------------------------
\* C18: the two snapshots are mutually exclusive in every reachable state:
\* no id is shown in the pending list and in the done list at once.
C18_SnapshotsDisjoint == Pressable("todo") \cap Pressable("done") = {}

\* ---- C19 ----------------------------------------------------------------
\* the rows of rs whose id is not i
Others(rs, i) == {r \in rs : r.id # i}

PressCommitsOn(i) ==
    /\ queue # <<>> /\ Head(queue).op \in {"markDone", "delete"}
    /\ Head(queue).id = i
    /\ ExecMutation

\* the mutations issued so far are: create, create, markDone of the first
\* item, delete of the first item, on a table that was empty
ScenarioIssued ==
    /\ Len(hist) = 4
    /\ hist[1].op = "insert" /\ hist[2].op = "insert"
    /\ hist[3].op = "markDone" /\ hist[4].op = "delete"
    /\ Committed(1) /\ hist[1].pre = {}
    /\ hist[3].id = 1 /\ hist[4].id = 1

C19_FrameStep ==
    /\ \A i \in Ids(rows) \cup Pressable("todo") \cup Pressable("done") :
          PressCommitsOn(i) => Others(rows', i) = Others(rows, i)
    /\ CreateCommits => \A o \in rows : o \in rows'

C19_Scenario ==
    (ScenarioIssued /\ Quiescent) =>
        /\ rows = {Row(2, 0, hist[2].value)}
        /\ Shown("todo") = rows
        /\ Shown("done") = {}

\* C19: each mutation touches only its own item: a markDone or delete of an
\* id leaves id, done and value of every row with another id as they are,
\* and a create leaves every row already in the table as it is; after
\* create a, create b, markDone a, delete a the pending list holds exactly b
\* and the done list is empty.
C19_OnlyOwnItem == []C19_Scenario /\ [][C19_FrameStep]_vars

\* the scenario has run to its end: the second item alone is left, pending
C19_Witness ==
    /\ ScenarioIssued /\ Quiescent
    /\ \A s \in Serials : Committed(s)
    /\ Pressable("todo") = {2} /\ Pressable("done") = {}

====
